---- MODULE Spec2Model ----
(***************************************************************************)
(* Model of src/src/transport.rs: the JSON-RPC message model (the untagged *)
(* enum JsonRpcMessage and its three structs, as serde derives their       *)
(* Serialize/Deserialize) and the newline framed StdioTransport.           *)
(*                                                                         *)
(* A JSON text is a sequence of tokens; a token is a string: the           *)
(* punctuation "{" "}" ":" ",", the literals "null" "true", a number in    *)
(* decimal, a string literal with its quotes, or the line terminator "\n". *)
(*                                                                         *)
(* Outside the model: JSON arrays (serde also reads a struct from a        *)
(* sequence), string escapes, floating point numbers, and operating system *)
(* errors of read and write.                                               *)
(***************************************************************************)
EXTENDS Integers, Sequences, FiniteSets, TLC

VARIABLES
    \* ---- message model (decode / encode applied to drawn inputs) ----
    cpc,        \* "text" | "value" | "encoded" | "decoded" | "off"
    wire,       \* the JSON text given to decode / produced by encode
    value,      \* Option<Message>: the in-memory message given to encode
    decoded,    \* Option<Result<Message>>: what decode returned
    \* ---- stdio transport ----
    pc,         \* per thread: position inside send / receive
    arg,        \* per thread: the message passed to send
    serialized, \* per thread: local `serialized` of send
    line,       \* per thread: local `line` of receive
    ret,        \* per thread: the Result the last call returned
    stdoutLock, \* owner of the stdout lock (0: free)
    stdinLock,  \* owner of the stdin lock (0: free)
    outBuf,     \* bytes buffered in the stdout writer, not yet written
    stdout,     \* bytes written to file descriptor 1
    stdin,      \* bytes written by the peer and not yet read
    stdinEof,   \* the peer closed its end
    pending,    \* the rest of the line the peer is writing
    produced,   \* history: every byte the peer wrote
    consumed,   \* history: thread, line and result of each returned receive
    sent,       \* history: the messages of the sends that returned Ok
    ops         \* number of calls started

codecVars == <<cpc, wire, value, decoded>>
ioVars == <<pc, arg, serialized, line, ret, stdoutLock, stdinLock, outBuf,
            stdout, stdin, stdinEof, pending, produced, consumed, sent, ops>>
vars == <<cpc, wire, value, decoded, pc, arg, serialized, line, ret,
          stdoutLock, stdinLock, outBuf, stdout, stdin, stdinEof, pending,
          produced, consumed, sent, ops>>

-----------------------------------------------------------------------------
(* Bounds *)
MaxId == 1          \* request ids 0..MaxId
MaxCode == 1        \* error codes -1..MaxCode
MaxOps == 3         \* calls of send / receive started in a run
MaxLines == 2       \* lines the peer writes in a run
NThreads == 2       \* threads sharing the StdioTransport

-----------------------------------------------------------------------------
(* Option<T>: <<>> is None, <<x>> is Some(x) *)
None == <<>>
Some(x) == <<x>>

(* serde_json::Value / serde's buffered Content: one record shape *)
JNull == [t |-> "null", s |-> "", n |-> 0, m |-> <<>>]
JTrue == [t |-> "bool", s |-> "true", n |-> 0, m |-> <<>>]
JNum(i) == [t |-> "num", s |-> "", n |-> i, m |-> <<>>]
JStr(x) == [t |-> "str", s |-> x, n |-> 0, m |-> <<>>]
JObj(pairs) == [t |-> "obj", s |-> "", n |-> 0, m |-> pairs]
Pair(key, v) == [k |-> key, v |-> v]

(* the strings and numbers that occur in the drawn inputs *)
Methods == {"", "ping"}
Versions == {"2.0", "1.0"}
FieldNames == {"id", "method", "params", "jsonrpc", "result", "error",
               "code", "message", "data", "bogus", "k"}
Strings == Methods \cup Versions \cup FieldNames \cup {"ok"}
Numbers == -1 .. (IF MaxId > MaxCode THEN MaxId ELSE MaxCode)

NL == "\n"
Quote(x) == "\"" \o x \o "\""
IsStrTok(tok) == \E x \in Strings : tok = Quote(x)
Unquote(tok) == CHOOSE x \in Strings : tok = Quote(x)
IsNumTok(tok) == \E i \in Numbers : tok = ToString(i)
ParseNum(tok) == CHOOSE i \in Numbers : tok = ToString(i)

-----------------------------------------------------------------------------
(* serde_json's parser, on tokens.  Whitespace is skipped before every     *)
(* token and after the value, so the text is parsed with its "\n" removed. *)
Strip(toks) == SelectSeq(toks, LAMBDA x : x # NL)

PFail == [ok |-> FALSE, v |-> JNull, i |-> 0]
POk(v, i) == [ok |-> TRUE, v |-> v, i |-> i]

RECURSIVE ParseValue(_, _)
RECURSIVE ParseMembers(_, _, _)
ParseValue(toks, i) ==
    IF i > Len(toks) THEN PFail              \* EOF while parsing a value
    ELSE LET tok == toks[i] IN
         IF tok = "null" THEN POk(JNull, i + 1)
         ELSE IF tok = "true" THEN POk(JTrue, i + 1)
         ELSE IF IsNumTok(tok) THEN POk(JNum(ParseNum(tok)), i + 1)
         ELSE IF IsStrTok(tok) THEN POk(JStr(Unquote(tok)), i + 1)
         ELSE IF tok = "{"
              THEN IF i + 1 <= Len(toks) /\ toks[i + 1] = "}"
                   THEN POk(JObj(<<>>), i + 2)
                   ELSE ParseMembers(toks, i + 1, <<>>)
         ELSE PFail

ParseMembers(toks, i, acc) ==
    IF i + 1 > Len(toks) \/ ~IsStrTok(toks[i]) \/ toks[i + 1] # ":" THEN PFail
    ELSE LET r == ParseValue(toks, i + 2) IN
         IF ~r.ok \/ r.i > Len(toks) THEN PFail
         ELSE LET acc2 == Append(acc, Pair(Unquote(toks[i]), r.v)) IN
              IF toks[r.i] = "}" THEN POk(JObj(acc2), r.i + 1)
              ELSE IF toks[r.i] = "," THEN ParseMembers(toks, r.i + 1, acc2)
              ELSE PFail

(* the whole text is one JSON value: None on a syntax error, on an empty   *)
(* text and on trailing characters                                         *)
ParseText(text) ==
    LET toks == Strip(text)
        r == ParseValue(toks, 1)
    IN  IF r.ok /\ r.i = Len(toks) + 1 THEN Some(r.v) ELSE None

-----------------------------------------------------------------------------
(* The derived Deserialize of the structs, from a buffered JSON object     *)
Has(p, key) == \E i \in 1..Len(p) : p[i].k = key
Get(p, key) == p[CHOOSE i \in 1..Len(p) : p[i].k = key].v
HasDup(p, K) == \E i, j \in 1..Len(p) : i < j /\ p[i].k = p[j].k /\ p[i].k \in K
HasUnknown(p, K) == \E i \in 1..Len(p) : p[i].k \notin K

IsU64(v) == v.t = "num" /\ v.n >= 0          \* RequestId = u64
IsI32(v) == v.t = "num"                      \* code: i32 (model numbers are small)
IsString(v) == v.t = "str"

(* serde_json::Value from the buffered content: a later key replaces an    *)
(* earlier equal one                                                       *)
RECURSIVE ToValue(_)
ToValue(c) ==
    IF c.t # "obj" THEN c
    ELSE LET p == c.m
             keep == SelectSeq([i \in 1..Len(p) |-> i],
                               LAMBDA i : ~\E j \in (i + 1)..Len(p) : p[j].k = p[i].k)
         IN  JObj([x \in 1..Len(keep) |-> Pair(p[keep[x]].k, ToValue(p[keep[x]].v))])

(* Option<serde_json::Value>: null is None *)
OptValue(c) == IF c.t = "null" THEN None ELSE Some(ToValue(c))

DefaultVersion == "2.0"

ErrorFields == {"code", "message", "data"}
(* JsonRpcError: #[serde(default)], unknown fields ignored *)
DeError(c) ==
    IF c.t # "obj" THEN None
    ELSE LET p == c.m IN
         IF HasDup(p, ErrorFields) THEN None
         ELSE IF Has(p, "code") /\ ~IsI32(Get(p, "code")) THEN None
         ELSE IF Has(p, "message") /\ ~IsString(Get(p, "message")) THEN None
         ELSE Some([code |-> IF Has(p, "code") THEN Get(p, "code").n ELSE 0,
                    message |-> IF Has(p, "message") THEN Get(p, "message").s ELSE "",
                    data |-> IF Has(p, "data") THEN OptValue(Get(p, "data")) ELSE None])

ResponseFields == {"id", "result", "error", "jsonrpc"}
(* JsonRpcResponse: deny_unknown_fields, #[serde(default)] *)
DeResponseNoDefault(c) ==
    IF c.t # "obj" THEN None
    ELSE LET p == c.m IN
         IF HasUnknown(p, ResponseFields) \/ HasDup(p, ResponseFields) THEN None
         ELSE IF ~Has(p, "id") \/ ~IsU64(Get(p, "id")) THEN None
         ELSE IF Has(p, "error") /\ Get(p, "error").t # "null"
                 /\ DeError(Get(p, "error")) = None THEN None
         ELSE IF ~Has(p, "jsonrpc") \/ ~IsString(Get(p, "jsonrpc")) THEN None
         ELSE Some([variant |-> "Response",
                    id |-> Get(p, "id").n,
                    result |-> IF Has(p, "result") THEN OptValue(Get(p, "result")) ELSE None,
                    error |-> IF Has(p, "error") /\ Get(p, "error").t # "null"
                              THEN DeError(Get(p, "error")) ELSE None,
                    jsonrpc |-> Get(p, "jsonrpc").s])

DeResponse(c) ==
    IF c.t # "obj" THEN None
    ELSE LET p == c.m IN
         IF HasUnknown(p, ResponseFields) \/ HasDup(p, ResponseFields) THEN None
         ELSE IF Has(p, "id") /\ ~IsU64(Get(p, "id")) THEN None
         ELSE IF Has(p, "error") /\ Get(p, "error").t # "null"
                 /\ DeError(Get(p, "error")) = None THEN None
         ELSE IF Has(p, "jsonrpc") /\ ~IsString(Get(p, "jsonrpc")) THEN None
         ELSE Some([variant |-> "Response",
                    id |-> IF Has(p, "id") THEN Get(p, "id").n ELSE 0,
                    result |-> IF Has(p, "result") THEN OptValue(Get(p, "result")) ELSE None,
                    error |-> IF Has(p, "error") /\ Get(p, "error").t # "null"
                              THEN DeError(Get(p, "error")) ELSE None,
                    jsonrpc |-> IF Has(p, "jsonrpc") THEN Get(p, "jsonrpc").s
                                ELSE DefaultVersion])

RequestFields == {"id", "method", "params", "jsonrpc"}
(* JsonRpcRequest: deny_unknown_fields, no default: id, method and jsonrpc *)
(* are required, the Option field params may be missing                    *)
DeRequestDefaulted(c) ==
    IF c.t # "obj" THEN None
    ELSE LET p == c.m IN
         IF HasUnknown(p, RequestFields) \/ HasDup(p, RequestFields) THEN None
         ELSE IF ~Has(p, "id") \/ ~IsU64(Get(p, "id")) THEN None
         ELSE IF ~Has(p, "method") \/ ~IsString(Get(p, "method")) THEN None
         ELSE IF Has(p, "jsonrpc") /\ ~IsString(Get(p, "jsonrpc")) THEN None
         ELSE Some([variant |-> "Request",
                    id |-> Get(p, "id").n,
                    method |-> Get(p, "method").s,
                    params |-> IF Has(p, "params") THEN OptValue(Get(p, "params")) ELSE None,
                    jsonrpc |-> IF Has(p, "jsonrpc") THEN Get(p, "jsonrpc").s
                                ELSE DefaultVersion])

DeRequestLax(c) ==
    IF c.t # "obj" THEN None
    ELSE LET p == c.m IN
         IF HasDup(p, RequestFields) THEN None
         ELSE IF ~Has(p, "id") \/ ~IsU64(Get(p, "id")) THEN None
         ELSE IF ~Has(p, "method") \/ ~IsString(Get(p, "method")) THEN None
         ELSE IF ~Has(p, "jsonrpc") \/ ~IsString(Get(p, "jsonrpc")) THEN None
         ELSE Some([variant |-> "Request",
                    id |-> Get(p, "id").n,
                    method |-> Get(p, "method").s,
                    params |-> IF Has(p, "params") THEN OptValue(Get(p, "params")) ELSE None,
                    jsonrpc |-> Get(p, "jsonrpc").s])

DeRequest(c) ==
    IF c.t # "obj" THEN None
    ELSE LET p == c.m IN
         IF HasUnknown(p, RequestFields) \/ HasDup(p, RequestFields) THEN None
         ELSE IF ~Has(p, "id") \/ ~IsU64(Get(p, "id")) THEN None
         ELSE IF ~Has(p, "method") \/ ~IsString(Get(p, "method")) THEN None
         ELSE IF ~Has(p, "jsonrpc") \/ ~IsString(Get(p, "jsonrpc")) THEN None
         ELSE Some([variant |-> "Request",
                    id |-> Get(p, "id").n,
                    method |-> Get(p, "method").s,
                    params |-> IF Has(p, "params") THEN OptValue(Get(p, "params")) ELSE None,
                    jsonrpc |-> Get(p, "jsonrpc").s])

NotificationFields == {"method", "params", "jsonrpc"}
(* JsonRpcNotification: deny_unknown_fields, #[serde(default)] *)
DeNotification(c) ==
    IF c.t # "obj" THEN None
    ELSE LET p == c.m IN
         IF HasUnknown(p, NotificationFields) \/ HasDup(p, NotificationFields) THEN None
         ELSE IF Has(p, "method") /\ ~IsString(Get(p, "method")) THEN None
         ELSE IF Has(p, "jsonrpc") /\ ~IsString(Get(p, "jsonrpc")) THEN None
         ELSE Some([variant |-> "Notification",
                    method |-> IF Has(p, "method") THEN Get(p, "method").s ELSE "",
                    params |-> IF Has(p, "params") THEN OptValue(Get(p, "params")) ELSE None,
                    jsonrpc |-> IF Has(p, "jsonrpc") THEN Get(p, "jsonrpc").s
                                ELSE DefaultVersion])

(* #[serde(untagged)] enum JsonRpcMessage: the variants in declaration     *)
(* order, the first that deserializes wins                                 *)
DeUntagged(c) ==
    IF DeResponse(c) # None THEN DeResponse(c)
    ELSE IF DeRequest(c) # None THEN DeRequest(c)
    ELSE DeNotification(c)

(* serde_json::from_str::<Message>: Option<Message>, None is Err *)
decode(text) ==
    LET c == ParseText(text) IN
    IF c = None THEN None ELSE DeUntagged(c[1])

-----------------------------------------------------------------------------
(* The derived Serialize of the structs, through serde_json::to_string     *)
Field(key, toks) == [k |-> key, toks |-> toks]

RECURSIVE Join(_)
Join(fs) ==
    IF fs = <<>> THEN <<>>
    ELSE <<Quote(fs[1].k), ":">> \o fs[1].toks
         \o (IF Len(fs) > 1 THEN <<",">> \o Join(Tail(fs)) ELSE <<>>)

Braces(fs) == <<"{">> \o Join(fs) \o <<"}">>

RECURSIVE EncValue(_)
EncValue(v) ==
    IF v.t = "null" THEN <<"null">>
    ELSE IF v.t = "bool" THEN <<v.s>>
    ELSE IF v.t = "num" THEN <<ToString(v.n)>>
    ELSE IF v.t = "str" THEN <<Quote(v.s)>>
    ELSE Braces([i \in 1..Len(v.m) |-> Field(v.m[i].k, EncValue(v.m[i].v))])

(* a field under skip_serializing_if = "Option::is_none" *)
SkipNoneEmitNull(key, opt) ==
    IF opt = None THEN <<Field(key, <<"null">>)>> ELSE <<Field(key, EncValue(opt[1]))>>

SkipNone(key, opt) ==
    IF opt = None THEN <<>> ELSE <<Field(key, EncValue(opt[1]))>>

SerError(e) ==
    Braces(<<Field("code", <<ToString(e.code)>>),
             Field("message", <<Quote(e.message)>>)>>
           \o SkipNone("data", e.data))

SerRequest(m) ==
    Braces(<<Field("id", <<ToString(m.id)>>),
             Field("method", <<Quote(m.method)>>)>>
           \o SkipNone("params", m.params)
           \o <<Field("jsonrpc", <<Quote(m.jsonrpc)>>)>>)

SerNotification(m) ==
    Braces(<<Field("method", <<Quote(m.method)>>)>>
           \o SkipNone("params", m.params)
           \o <<Field("jsonrpc", <<Quote(m.jsonrpc)>>)>>)

SerResponse(m) ==
    Braces(<<Field("id", <<ToString(m.id)>>)>>
           \o SkipNone("result", m.result)
           \o (IF m.error = None THEN <<>>
               ELSE <<Field("error", SerError(m.error[1]))>>)
           \o <<Field("jsonrpc", <<Quote(m.jsonrpc)>>)>>)

(* serde_json::to_string(&Message): the untagged enum writes its content *)
encode(m) ==
    IF m.variant = "Response" THEN SerResponse(m)
    ELSE IF m.variant = "Request" THEN SerRequest(m)
    ELSE SerNotification(m)

-----------------------------------------------------------------------------
(* The inputs the message model is applied to *)
Values == {JNull, JTrue, JNum(-1), JStr("ok"), JObj(<<>>),
           JObj(<<Pair("k", JNum(0))>>)}
OptValues == {None} \cup {Some(v) : v \in Values}
Errors == [code : -1..MaxCode, message : {"", "ok"}, data : OptValues]
OptErrors == {None} \cup {Some(e) : e \in Errors}
Requests == [variant : {"Request"}, id : 0..MaxId, method : Methods,
             params : OptValues, jsonrpc : Versions]
Notifications == [variant : {"Notification"}, method : Methods,
                  params : OptValues, jsonrpc : Versions]
Responses == [variant : {"Response"}, id : 0..MaxId, result : OptValues,
              error : OptErrors, jsonrpc : Versions]
Messages == Requests \cup Notifications \cup Responses

(* JSON objects on the wire: each key absent or with one of a few values,  *)
(* the members in one order or the reverse                                 *)
JAbsent == [t |-> "absent", s |-> "", n |-> 0, m |-> <<>>]
WireIds == {JAbsent} \cup {JNum(i) : i \in -1..MaxId}
WireMethods == {JAbsent} \cup {JStr(x) : x \in Methods}
WireParams == {JAbsent, JNull, JNum(-1), JObj(<<>>)}
WireVersions == {JAbsent, JNum(0)} \cup {JStr(x) : x \in Versions}
WireResults == {JAbsent, JNull, JStr("ok")}
WireErrors == {JAbsent, JNull, JObj(<<Pair("code", JNum(MaxCode))>>),
               JObj(<<Pair("code", JNum(-1)), Pair("bogus", JTrue)>>)}
WireBogus == {JAbsent, JTrue}

Reverse(q) == [i \in 1..Len(q) |-> q[Len(q) + 1 - i]]
Present(q) == SelectSeq(q, LAMBDA x : x.v.t # "absent")

WireObjects ==
    { JObj(IF rev THEN Reverse(Present(q)) ELSE Present(q)) :
        rev \in BOOLEAN,
        q \in { <<Pair("method", vm), Pair("params", vp), Pair("jsonrpc", vj),
                  Pair("id", vi), Pair("result", vr), Pair("error", ve),
                  Pair("bogus", vb)>> :
                vm \in WireMethods, vp \in WireParams, vj \in WireVersions,
                vi \in WireIds, vr \in WireResults, ve \in WireErrors,
                vb \in WireBogus } }

(* texts that are no JSON object, or an object with a repeated key *)
OddTexts == { <<>>, <<NL>>, <<"{">>, <<"null">>, <<"{", "}", "}">>,
              <<"{", Quote("id"), ":", "0", ",", "}">>,
              <<"{", Quote("id"), ":", "0", ",", Quote("id"), ":", "1", "}">>,
              <<"{", Quote("method"), ":", Quote("ping"), ",",
                Quote("method"), ":", Quote("ping"), "}">> }

Texts == {EncValue(o) : o \in WireObjects}
         \cup {EncValue(o) \o <<NL>> : o \in WireObjects}
         \cup OddTexts

CodecInit ==
    /\ \/ cpc = "text" /\ wire \in Texts /\ value = None
       \/ cpc = "value" /\ wire = <<>> /\ value \in {Some(m) : m \in Messages}
    /\ decoded = None
    /\ pc = <<>> /\ arg = <<>> /\ serialized = <<>> /\ line = <<>> /\ ret = <<>>
    /\ stdoutLock = 0 /\ stdinLock = 0 /\ outBuf = <<>> /\ stdout = <<>>
    /\ stdin = <<>> /\ stdinEof = FALSE /\ pending = <<>> /\ produced = <<>>
    /\ consumed = <<>> /\ sent = <<>> /\ ops = 0

(* encode applied to the drawn message *)
Encode ==
    /\ cpc = "value"
    /\ wire' = encode(value[1])
    /\ cpc' = "encoded"
    /\ UNCHANGED <<value, decoded>>
    /\ UNCHANGED ioVars

(* decode applied to the drawn text, or to what encode produced *)
Decode ==
    /\ cpc \in {"text", "encoded"}
    /\ decoded' = Some(decode(wire))
    /\ cpc' = "decoded"
    /\ UNCHANGED <<wire, value>>
    /\ UNCHANGED ioVars

CodecNext == Encode \/ Decode

CodecSpec == CodecInit /\ [][CodecNext]_vars

-----------------------------------------------------------------------------
(* StdioTransport *)
Threads == 1..NThreads

RECURSIVE Concat(_)
Concat(qs) == IF qs = <<>> THEN <<>> ELSE qs[1] \o Concat(Tail(qs))

(* Result<()> / Result<Message>: kind "ok" (unit), "msg", or the error     *)
(* that `?` converted: "json" (serde_json::Error), "io" (std::io::Error)   *)
NoRet == [kind |-> "none", msg |-> None]
OkUnit == [kind |-> "ok", msg |-> None]
OkMsg(m) == [kind |-> "msg", msg |-> Some(m)]
ErrJson == [kind |-> "json", msg |-> None]
ErrIo == [kind |-> "io", msg |-> None]

(* what callers pass to send *)
SendMessages ==
    { [variant |-> "Response", id |-> 1, result |-> Some(JStr("ok")),
       error |-> None, jsonrpc |-> DefaultVersion],
      [variant |-> "Notification", method |-> "ping", params |-> None,
       jsonrpc |-> DefaultVersion] }

(* what the peer writes: a byte that is no UTF-8 stands for a line that    *)
(* read_line rejects                                                       *)
BadByte == "<ff>"
PeerLines ==
    { <<"{", Quote("id"), ":", "1", ",", Quote("method"), ":",
        Quote("ping"), ",", Quote("jsonrpc"), ":", Quote("2.0"), "}", NL>>,
      <<"{", "}", NL>>,
      <<"{", Quote("bogus"), ":", "true", "}", NL>>,
      <<BadByte, NL>> }
(* where the peer may cut a line into two writes *)
Cuts(l) == {1, Len(l) - 1, Len(l)}

Init ==
    /\ cpc = "off" /\ wire = <<>> /\ value = None /\ decoded = None
    /\ pc = [t \in Threads |-> "idle"]
    /\ arg = [t \in Threads |-> None]
    /\ serialized = [t \in Threads |-> <<>>]
    /\ line = [t \in Threads |-> <<>>]
    /\ ret = [t \in Threads |-> NoRet]
    /\ stdoutLock = 0 /\ stdinLock = 0
    /\ outBuf = <<>> /\ stdout = <<>>
    /\ stdin = <<>> /\ stdinEof = FALSE /\ pending = <<>>
    /\ produced = <<>> /\ consumed = <<>> /\ sent = <<>>
    /\ ops = 0

peerVars == <<stdin, stdinEof, pending, produced>>
recvVars == <<line, stdinLock, consumed>>
sendVars == <<arg, serialized, stdoutLock, outBuf, stdout, sent>>

(* ---- the peer on the other end of standard input ---- *)
PeerStart ==
    /\ ~stdinEof /\ pending = <<>>
    /\ Len(SelectSeq(produced, LAMBDA x : x = NL)) < MaxLines
    /\ \E l \in PeerLines : \E k \in Cuts(l) :
         /\ stdin' = stdin \o SubSeq(l, 1, k)
         /\ produced' = produced \o SubSeq(l, 1, k)
         /\ pending' = SubSeq(l, k + 1, Len(l))
    /\ UNCHANGED <<stdinEof, pc, ret, ops>>
    /\ UNCHANGED recvVars /\ UNCHANGED sendVars /\ UNCHANGED codecVars

PeerFinish ==
    /\ ~stdinEof /\ pending # <<>>
    /\ stdin' = stdin \o pending
    /\ produced' = produced \o pending
    /\ pending' = <<>>
    /\ UNCHANGED <<stdinEof, pc, ret, ops>>
    /\ UNCHANGED recvVars /\ UNCHANGED sendVars /\ UNCHANGED codecVars

PeerClose ==
    /\ ~stdinEof
    /\ stdinEof' = TRUE
    /\ pending' = <<>>
    /\ UNCHANGED <<stdin, produced, pc, ret, ops>>
    /\ UNCHANGED recvVars /\ UNCHANGED sendVars /\ UNCHANGED codecVars

(* ---- receive ---- *)
StdinAlwaysFree(t) == TRUE
(* the lock is free: lock() blocks while another thread holds it *)
StdinFreeFor(t) == stdinLock = 0

(* io::stdin().lock(); String::new() *)
RecvLock(t) ==
    /\ pc[t] = "idle" /\ ops < MaxOps
    /\ StdinFreeFor(t)
    /\ stdinLock' = t
    /\ line' = [line EXCEPT ![t] = <<>>]
    /\ pc' = [pc EXCEPT ![t] = "r_read"]
    /\ ret' = [ret EXCEPT ![t] = NoRet]
    /\ ops' = ops + 1
    /\ UNCHANGED consumed
    /\ UNCHANGED peerVars /\ UNCHANGED sendVars /\ UNCHANGED codecVars

(* the bytes one round of read_line's loop takes: up to and including the  *)
(* first "\n" of what is available                                         *)
FirstNl(q) == CHOOSE i \in 1..Len(q) : q[i] = NL /\ \A j \in 1..(i - 1) : q[j] # NL
HasNl(q) == \E i \in 1..Len(q) : q[i] = NL
Taken(q) == IF HasNl(q) THEN SubSeq(q, 1, FirstNl(q)) ELSE q

(* read_line is done when the delimiter was read, or at end of input *)
LineDoneOnAnyRead(got, eof) == TRUE
LineDone(got, eof) == (got # <<>> /\ got[Len(got)] = NL) \/ eof

(* the result of lines 39-43 for the bytes read *)
RecvResult(l) ==
    IF \E i \in 1..Len(l) : l[i] = BadByte THEN ErrIo   \* read_line: InvalidData
    ELSE IF decode(l) = None THEN ErrJson
    ELSE OkMsg(decode(l)[1])

(* reader.read_line(&mut line)?; from_str(&line)?; Ok(message): one round  *)
(* of the read loop; the call returns, dropping the lock, when the line is *)
(* done, and blocks while no byte is available and the input is open       *)
ReadLine(t) ==
    /\ pc[t] \in {"r_read", "r_more"}
    /\ stdin # <<>> \/ stdinEof
    /\ LET got == line[t] \o Taken(stdin)
           eof == stdin = <<>>
       IN  /\ stdin' = SubSeq(stdin, Len(Taken(stdin)) + 1, Len(stdin))
           /\ IF LineDone(got, eof)
              THEN /\ pc' = [pc EXCEPT ![t] = "idle"]
                   /\ ret' = [ret EXCEPT ![t] = RecvResult(got)]
                   /\ consumed' = Append(consumed,
                          [t |-> t, line |-> got, eof |-> eof,
                           partial |-> pc[t] = "r_more",
                           ret |-> RecvResult(got)])
                   /\ stdinLock' = IF stdinLock = t THEN 0 ELSE stdinLock
                   /\ line' = [line EXCEPT ![t] = <<>>]
              ELSE /\ line' = [line EXCEPT ![t] = got]
                   /\ pc' = [pc EXCEPT ![t] = "r_more"]
                   /\ UNCHANGED <<ret, consumed, stdinLock>>
    /\ UNCHANGED <<stdinEof, pending, produced, ops>>
    /\ UNCHANGED sendVars /\ UNCHANGED codecVars

(* ---- send ---- *)
StdoutAlwaysFree(t) == TRUE
(* the lock is free: lock() blocks while another thread holds it *)
StdoutFreeFor(t) == stdoutLock = 0

(* io::stdout().lock(); serde_json::to_string(message)? *)
SendLock(t) ==
    /\ pc[t] = "idle" /\ ops < MaxOps
    /\ StdoutFreeFor(t)
    /\ \E m \in SendMessages :
         /\ arg' = [arg EXCEPT ![t] = Some(m)]
         /\ serialized' = [serialized EXCEPT ![t] = encode(m)]
    /\ stdoutLock' = t
    /\ pc' = [pc EXCEPT ![t] = "s_body"]
    /\ ret' = [ret EXCEPT ![t] = NoRet]
    /\ ops' = ops + 1
    /\ UNCHANGED <<outBuf, stdout, sent>>
    /\ UNCHANGED peerVars /\ UNCHANGED recvVars /\ UNCHANGED codecVars

(* writer.write_all(serialized.as_bytes())? *)
WriteBody(t) ==
    /\ pc[t] = "s_body"
    /\ outBuf' = outBuf \o serialized[t]
    /\ pc' = [pc EXCEPT ![t] = "s_nl"]
    /\ UNCHANGED <<arg, serialized, stdoutLock, stdout, sent, ret, ops>>
    /\ UNCHANGED peerVars /\ UNCHANGED recvVars /\ UNCHANGED codecVars

(* writer.write_all(b"\n")? *)
WriteNl(t) ==
    /\ pc[t] = "s_nl"
    /\ outBuf' = Append(outBuf, NL)
    /\ pc' = [pc EXCEPT ![t] = "s_flush"]
    /\ UNCHANGED <<arg, serialized, stdoutLock, stdout, sent, ret, ops>>
    /\ UNCHANGED peerVars /\ UNCHANGED recvVars /\ UNCHANGED codecVars

(* what writer.flush() leaves in the buffer and puts on the descriptor *)
Flushed(buf, out) == [buf |-> <<>>, out |-> out \o buf]

(* writer.flush()?; Ok(()): the guard is dropped on return *)
FlushReturn(t) ==
    /\ pc[t] = "s_flush"
    /\ outBuf' = Flushed(outBuf, stdout).buf
    /\ stdout' = Flushed(outBuf, stdout).out
    /\ stdoutLock' = IF stdoutLock = t THEN 0 ELSE stdoutLock
    /\ sent' = Append(sent, arg[t][1])
    /\ ret' = [ret EXCEPT ![t] = OkUnit]
    /\ pc' = [pc EXCEPT ![t] = "idle"]
    /\ UNCHANGED <<arg, serialized, ops>>
    /\ UNCHANGED peerVars /\ UNCHANGED recvVars /\ UNCHANGED codecVars

(* the stdout writer is buffered: it may write what it holds before flush  *)
(* is called (a full buffer, a line end)                                   *)
WriteThrough ==
    /\ outBuf # <<>>
    /\ stdout' = stdout \o outBuf
    /\ outBuf' = <<>>
    /\ UNCHANGED <<arg, serialized, stdoutLock, sent, pc, ret, ops>>
    /\ UNCHANGED peerVars /\ UNCHANGED recvVars /\ UNCHANGED codecVars

(* the calls on standard input with the peer, and those on standard output *)
RecvNext ==
    \/ PeerStart \/ PeerFinish \/ PeerClose
    \/ \E t \in Threads : RecvLock(t) \/ ReadLine(t)

SendNext ==
    \/ WriteThrough
    \/ \E t \in Threads :
         SendLock(t) \/ WriteBody(t) \/ WriteNl(t) \/ FlushReturn(t)

Next == RecvNext \/ SendNext

Spec == Init /\ [][Next]_vars
RecvSpec == Init /\ [][RecvNext]_vars
SendSpec == Init /\ [][SendNext]_vars

-----------------------------------------------------------------------------
(* Properties of the message model, under CodecSpec *)

(* the object a decoded text consists of (texts that are no object: none) *)
TextDecoded == cpc = "decoded" /\ value = None
IsObjectText == ParseText(wire) # None /\ ParseText(wire)[1].t = "obj"
Members == ParseText(wire)[1].m
NoRepeat(p) == \A i, j \in 1..Len(p) : p[i].k = p[j].k => i = j
KeysOf(p) == {p[i].k : i \in 1..Len(p)}
WireOpt(p, key) == IF Has(p, key) THEN Some(Get(p, key)) ELSE None

(* C1: an object with id (unsigned integer), method (string), jsonrpc      *)
(* (string), optionally params and nothing else decodes to the Request     *)
(* carrying exactly those values; the same object without id decodes to    *)
(* the Notification carrying them.                                         *)
C1_Discrimination ==
    (TextDecoded /\ IsObjectText /\ NoRepeat(Members)) =>
      LET p == Members IN
      /\ ( /\ KeysOf(p) \subseteq {"id", "method", "params", "jsonrpc"}
           /\ {"id", "method", "jsonrpc"} \subseteq KeysOf(p)
           /\ Get(p, "id").t = "num" /\ Get(p, "id").n >= 0
           /\ Get(p, "method").t = "str" /\ Get(p, "jsonrpc").t = "str" )
         => decoded[1] = Some([variant |-> "Request",
                               id |-> Get(p, "id").n,
                               method |-> Get(p, "method").s,
                               params |-> WireOpt(p, "params"),
                               jsonrpc |-> Get(p, "jsonrpc").s])
      /\ ( /\ KeysOf(p) \subseteq {"method", "params", "jsonrpc"}
           /\ {"method", "jsonrpc"} \subseteq KeysOf(p)
           /\ Get(p, "method").t = "str" /\ Get(p, "jsonrpc").t = "str" )
         => decoded[1] = Some([variant |-> "Notification",
                               method |-> Get(p, "method").s,
                               params |-> WireOpt(p, "params"),
                               jsonrpc |-> Get(p, "jsonrpc").s])

(* C2: round trip: decoding what encode produced for a message m succeeds  *)
(* and yields m, also when params / result / data is present and null.     *)
C2_RoundTrip ==
    (cpc = "decoded" /\ value # None) => decoded[1] = value

(* C3: an object with a top-level key that none of the three variants      *)
(* defines fails decode, and decode never returns a variant for an object  *)
(* with a key that variant does not define.                                *)
C3_Strictness ==
    (TextDecoded /\ IsObjectText) =>
      LET p == Members IN
      /\ (KeysOf(p) \subseteq {"id", "method", "params", "jsonrpc", "result", "error"})
         \/ decoded[1] = None
      /\ decoded[1] # None =>
           LET v == decoded[1][1].variant IN
           /\ v = "Request" => KeysOf(p) \subseteq {"id", "method", "params", "jsonrpc"}
           /\ v = "Notification" => KeysOf(p) \subseteq {"method", "params", "jsonrpc"}
           /\ v = "Response" => KeysOf(p) \subseteq {"id", "result", "error", "jsonrpc"}

(* the object {"method":"ping","jsonrpc":"2.0","id":1,"bogus":true} was    *)
(* decoded, and decode failed                                              *)
C3_Witness ==
    /\ TextDecoded
    /\ wire = <<"{", Quote("method"), ":", Quote("ping"), ",", Quote("jsonrpc"),
                ":", Quote("2.0"), ",", Quote("id"), ":", "1", ",",
                Quote("bogus"), ":", "true", "}">>
    /\ decoded[1] = None

EmptyObjectText == <<"{", "}">>

(* C4 as stated: decoding {} yields a Notification with method "",         *)
(* params absent and jsonrpc "2.0".                                        *)
C4_EmptyIsNotification ==
    (TextDecoded /\ wire = EmptyObjectText) =>
      decoded[1] = Some([variant |-> "Notification", method |-> "",
                         params |-> None, jsonrpc |-> "2.0"])

(* C4 as amended: decoding {} yields a Response with id 0, result absent,  *)
(* error absent and jsonrpc "2.0".                                         *)
C4_EmptyIsResponse ==
    (TextDecoded /\ wire = EmptyObjectText) =>
      decoded[1] = Some([variant |-> "Response", id |-> 0, result |-> None,
                         error |-> None, jsonrpc |-> "2.0"])

C4_Witness == TextDecoded /\ wire = EmptyObjectText /\ decoded[1] # None

(* C8: Request has no defaults: decode returns a Request only for objects  *)
(* that contain id, method and jsonrpc; an object with id and method but   *)
(* no jsonrpc fails decode; a missing jsonrpc, method or id is defaulted   *)
(* only in a Notification or a Response.                                   *)
C8_RequestHasNoDefaults ==
    (TextDecoded /\ IsObjectText) =>
      LET p == Members IN
      /\ (decoded[1] # None /\ decoded[1][1].variant = "Request")
           => {"id", "method", "jsonrpc"} \subseteq KeysOf(p)
      /\ ({"id", "method"} \subseteq KeysOf(p) /\ "jsonrpc" \notin KeysOf(p))
           => decoded[1] = None
      /\ (decoded[1] # None /\ "jsonrpc" \notin KeysOf(p))
           => /\ decoded[1][1].variant \in {"Notification", "Response"}
              /\ decoded[1][1].jsonrpc = "2.0"
      /\ (decoded[1] # None /\ "method" \notin KeysOf(p)
            /\ decoded[1][1].variant # "Response")
           => decoded[1][1].variant = "Notification" /\ decoded[1][1].method = ""
      /\ (decoded[1] # None /\ "id" \notin KeysOf(p)
            /\ decoded[1][1].variant # "Notification")
           => decoded[1][1].variant = "Response" /\ decoded[1][1].id = 0

(* an object with id and method and without jsonrpc was decoded: no message *)
C8_Witness ==
    /\ TextDecoded
    /\ wire = <<"{", Quote("method"), ":", Quote("ping"), ",", Quote("id"), ":", "1", "}">>
    /\ decoded[1] = None

(* C9: an absent optional field (params, result, error, data) gives no key *)
(* in the encoded text; id, method, jsonrpc, code and message are always   *)
(* there.                                                                  *)
KeyIn(text, key) == \E i \in 1..Len(text) : text[i] = Quote(key)
C9_OmissionOnEncode ==
    cpc = "encoded" =>
      LET m == value[1] IN
      /\ KeyIn(wire, "jsonrpc")
      /\ m.variant \in {"Request", "Notification"} =>
           /\ KeyIn(wire, "method")
           /\ m.params = None => ~KeyIn(wire, "params")
      /\ m.variant \in {"Request", "Response"} => KeyIn(wire, "id")
      /\ m.variant = "Response" =>
           /\ m.result = None => ~KeyIn(wire, "result")
           /\ m.error = None => ~KeyIn(wire, "error")
           /\ m.error # None =>
                /\ KeyIn(wire, "code") /\ KeyIn(wire, "message")
                /\ m.error[1].data = None => ~KeyIn(wire, "data")
      /\ \A i \in 1..Len(wire) : wire[i] = "null" =>
           \/ m.variant \in {"Request", "Notification"} /\ m.params = Some(JNull)
           \/ m.variant = "Response" /\ m.result = Some(JNull)
           \/ m.variant = "Response" /\ m.error # None /\ m.error[1].data = Some(JNull)

(* a Request without params was encoded to exactly id, method, jsonrpc *)
C9_Witness ==
    /\ cpc = "encoded"
    /\ value[1].variant = "Request" /\ value[1].params = None
    /\ wire = <<"{", Quote("id"), ":", "1", ",", Quote("method"), ":",
                Quote("ping"), ",", Quote("jsonrpc"), ":", Quote("2.0"), "}">>

-----------------------------------------------------------------------------
(* Properties of send, under SendSpec *)

Unit(m) == encode(m) \o <<NL>>
IsPrefix(a, b) == Len(a) <= Len(b) /\ SubSeq(b, 1, Len(a)) = a
(* the bytes of the units of the sends that returned Ok, in that order *)
SentUnits == Concat([i \in 1..Len(sent) |-> Unit(sent[i])])
(* what a thread inside send has handed to the writer so far *)
Written(t) ==
    IF pc[t] = "s_nl" THEN encode(arg[t][1])
    ELSE IF pc[t] = "s_flush" THEN Unit(arg[t][1])
    ELSE <<>>

(* C5: under any interleaving of sends, standard output and the writer's   *)
(* buffer hold the complete units encode(m) "\n" of the sends that         *)
(* returned Ok, one each, followed only by the bytes written so far by one *)
(* send in progress (no bytes of another send in between); and the units   *)
(* of the sends that returned are all on the descriptor, none buffered.    *)
C5_AtomicSend ==
    /\ IsPrefix(SentUnits, stdout)
    /\ \E t \in Threads : stdout \o outBuf = SentUnits \o Written(t)
    /\ (\A t \in Threads : pc[t] \notin {"s_body", "s_nl", "s_flush"})
         => stdout = SentUnits /\ outBuf = <<>>

(* two threads each sent a message; the Response {id:1, result:"ok"} is on *)
(* standard output as {"id":1,"result":"ok","jsonrpc":"2.0"}\n, followed   *)
(* by the unit of the other send                                           *)
C5_Witness ==
    /\ Len(sent) = 2 /\ sent[1] # sent[2]
    /\ ret[1] = OkUnit /\ ret[2] = OkUnit
    /\ pc[1] = "idle" /\ pc[2] = "idle"
    /\ stdout = <<"{", Quote("id"), ":", "1", ",", Quote("result"), ":",
                  Quote("ok"), ",", Quote("jsonrpc"), ":", Quote("2.0"), "}", NL>>
                \o Unit(sent[2])

-----------------------------------------------------------------------------
(* Properties of receive, under RecvSpec *)

CountNl(q) == Len(SelectSeq(q, LAMBDA x : x = NL))
(* a whole line: one terminator, at the end *)
Terminated(l) == l # <<>> /\ l[Len(l)] = NL /\ CountNl(l) = 1

(* C6: a receive returns only when the terminator of its line has been     *)
(* read (or the input ended): a receive that has read a prefix of a line   *)
(* stays blocked while no further byte is available, and returns one       *)
(* message for the whole line once the terminator arrives, never two and   *)
(* never one decoded from the prefix.                                      *)
C6_BlocksUntilTerminator ==
    /\ \A i \in 1..Len(consumed) :
         ~consumed[i].eof => Terminated(consumed[i].line)
    /\ \A t \in Threads :
         pc[t] = "r_more" => line[t] # <<>> /\ CountNl(line[t]) = 0
    /\ \A t \in Threads :
         (pc[t] \in {"r_read", "r_more"} /\ stdin = <<>> /\ ~stdinEof)
           => ~ENABLED ReadLine(t)
    /\ Len(SelectSeq(consumed, LAMBDA e : ~e.eof)) <= CountNl(produced)

(* a receive read the prefix {} of the line {}\n, blocked, and returned    *)
(* once: the Response that {} decodes to                                   *)
C6_Witness ==
    /\ Len(consumed) = 1 /\ consumed[1].partial /\ ~consumed[1].eof
    /\ consumed[1].line = <<"{", "}", NL>>
    /\ consumed[1].ret.kind = "msg"
    /\ produced = <<"{", "}", NL>>

(* C7: a receive at end of input (zero bytes read) fails with an I/O       *)
(* failure, not with a decode error.                                       *)
C7_EofIsIoFailure ==
    \A i \in 1..Len(consumed) :
      (consumed[i].eof /\ consumed[i].line = <<>>) => consumed[i].ret = ErrIo

(* C10: each terminated line is consumed whole by exactly one receive, in  *)
(* stream order, whatever threads call receive: the lines returned, then   *)
(* the bytes held by the receive in progress, then the unread bytes are    *)
(* exactly what the peer wrote; a receive returns the decode of its own    *)
(* line or an error without a message, so a line that fails to decode      *)
(* costs exactly that line.                                                *)
ConsumedBytes == Concat([i \in 1..Len(consumed) |-> consumed[i].line])
C10_ExactlyOnceInOrder ==
    /\ \E t \in Threads : produced = ConsumedBytes \o line[t] \o stdin
    /\ \A i \in 1..Len(consumed) :
         LET e == consumed[i] IN
         /\ ~e.eof => Terminated(e.line)
         /\ IF decode(e.line) = None
            THEN e.ret.kind \in {"json", "io"} /\ e.ret.msg = None
            ELSE e.ret = OkMsg(decode(e.line)[1])

(* two threads called receive: the first got the line with the unknown     *)
(* field and an error, the second the next line and its Request            *)
C10_Witness ==
    /\ Len(consumed) = 2 /\ consumed[1].t # consumed[2].t
    /\ consumed[1].line = <<"{", Quote("bogus"), ":", "true", "}", NL>>
    /\ consumed[1].ret = ErrJson
    /\ consumed[2].ret = OkMsg([variant |-> "Request", id |-> 1, method |-> "ping",
                                params |-> None, jsonrpc |-> "2.0"])

=============================================================================
